---- MODULE Spec2Model ----
(***************************************************************************)
(* UserInfo retrieval of openidconnect-rs (src/src/user_info.rs) and the   *)
(* HTTP helpers it uses (src/src/http_utils.rs), as a state machine.       *)
(*                                                                         *)
(* Strings whose characters matter (header values, tokens) are sequences   *)
(* of one-character strings, so that to_lowercase, find(';') and format!   *)
(* are computed as the code computes them.  Option<T> is a set with at     *)
(* most one element: {} is None and {x} is Some(x).                        *)
(***************************************************************************)
EXTENDS Integers, Sequences, FiniteSets, TLC

\* ------------------------------------------------------------------------
\* Bounds of the model
\* ------------------------------------------------------------------------

\* Largest number of parameter segments appended to a media type in an
\* enumerated Content-Type value.
MaxParams == 1

\* ------------------------------------------------------------------------
\* Characters and strings
\* ------------------------------------------------------------------------

UpperCaseLetters ==
    <<"A","B","C","D","E","F","G","H","I","J","K","L","M",
      "N","O","P","Q","R","S","T","U","V","W","X","Y","Z">>

LowerCaseLetters ==
    <<"a","b","c","d","e","f","g","h","i","j","k","l","m",
      "n","o","p","q","r","s","t","u","v","w","x","y","z">>

\* The one character of the model that is not ASCII.
NonAsciiChars == {"U+00E9"}

\* char::to_lowercase on the upper-case ASCII letters.
LowerCaseOf ==
    [c \in {UpperCaseLetters[i] : i \in 1..Len(UpperCaseLetters)} |->
        LowerCaseLetters[CHOOSE i \in 1..Len(UpperCaseLetters) : UpperCaseLetters[i] = c]]

char_to_lowercase(c) == IF c \in DOMAIN LowerCaseOf THEN LowerCaseOf[c] ELSE c

\* str::to_lowercase
to_lowercase(s) == [i \in 1..Len(s) |-> char_to_lowercase(s[i])]

\* str::find(ch): Some(first index) or None
find(s, ch) ==
    IF \E i \in 1..Len(s) : s[i] = ch
    THEN {CHOOSE i \in 1..Len(s) : s[i] = ch /\ \A j \in 1..(i - 1) : s[j] # ch}
    ELSE {}

\* str::is_ascii
is_ascii(s) == \A i \in 1..Len(s) : s[i] \notin NonAsciiChars

\* Option::unwrap on Some
unwrap(o) == CHOOSE x \in o : TRUE

\* ------------------------------------------------------------------------
\* http_utils.rs
\* ------------------------------------------------------------------------

MIME_TYPE_JSON == <<"a","p","p","l","i","c","a","t","i","o","n","/","j","s","o","n">>

MIME_TYPE_JWKS ==
    <<"a","p","p","l","i","c","a","t","i","o","n","/",
      "j","w","k","-","s","e","t","+","j","s","o","n">>

MIME_TYPE_JWT == <<"a","p","p","l","i","c","a","t","i","o","n","/","j","w","t">>

BEARER == <<"B","e","a","r","e","r">>

\* ct[..ct.find(';').unwrap_or_else(|| ct.len())]: the text before the first
\* ';' (find gives the 1-based index here, the slice excludes it).
essence_slice(ct) ==
    LET semi == find(ct, ";")
    IN  IF semi = {} THEN ct ELSE SubSeq(ct, 1, unwrap(semi) - 1)

content_type_has_essence(content_type, expected_essence) ==
    to_lowercase(essence_slice(content_type)) = to_lowercase(expected_essence)

\* format!("{} {}", BEARER, access_token.secret()) without the separating space
bearer_value_NoSpace(secret) == BEARER \o secret

\* format!("{} {}", BEARER, access_token.secret())
bearer_value(secret) == BEARER \o <<" ">> \o secret

\* auth_bearer: Some((AUTHORIZATION, value)), or None where
\* HeaderValue::from_str fails and .expect("invalid access token") panics.
auth_bearer(access_token) ==
    IF is_ascii(bearer_value(access_token))
    THEN {<<"authorization", bearer_value(access_token)>>}
    ELSE {}

\* ------------------------------------------------------------------------
\* UserInfoError and the results of a request
\* ------------------------------------------------------------------------

Ok(claims) == [kind |-> "Ok", claims |-> claims]

ClaimsVerification(err) == [kind |-> "ClaimsVerification", err |-> err]

Parse == [kind |-> "Parse"]

Request(err) == [kind |-> "Request", err |-> err]

Response(status, body, msg) ==
    [kind |-> "Response", status |-> status, body |-> body, msg |-> msg]

Other(msg) == [kind |-> "Other", msg |-> msg]

\* A panic of the calling task (unwrap on None, expect on Err).
Panic(msg) == [kind |-> "panic", msg |-> msg]

NoSignature == [error |-> "NoSignature"]

InvalidSubject(expected, found) ==
    [error |-> "InvalidSubject", expected |-> expected, found |-> found]

\* ------------------------------------------------------------------------
\* Values of the environment: subjects, documents, bodies, header values
\* ------------------------------------------------------------------------

Subjects == {"24400320", "66613370"}

Issuer == "https://server.example.com"

OtherIssuer == "https://evil.example.com"

ClientId == "s6BhdRkqt3"

OtherClientId == "other-client"

\* A JSON object as received: iss and aud are optional, and so is sub on
\* the wire (a document without it does not deserialize).
JsonDocs ==
    [iss : {{}, {Issuer}, {OtherIssuer}},
     aud : {{}, {<<ClientId>>}, {<<OtherClientId>>}},
     sub : {{}} \cup {{s} : s \in Subjects}]

JwtAlgs == {"RS256", "none"}

\* The compact serialisations the model sends: a signed token with a good
\* or a bad signature, and an unsigned one.
Jwts ==
    {[kind |-> "jwt", alg |-> h[1], sig_valid |-> h[2], payload |-> d] :
        h \in {<<"RS256", TRUE>>, <<"RS256", FALSE>>, <<"none", FALSE>>},
        d \in JsonDocs}

\* Response bodies: a JSON object, a compact JWT, text that is neither, bytes
\* that are not UTF-8, and a body whose stream fails when it is read.
Bodies ==
    {[kind |-> "json", doc |-> d] : d \in JsonDocs}
    \cup Jwts
    \cup {[kind |-> "garbage"], [kind |-> "invalid_utf8"], [kind |-> "unreadable"]}

TEXT_HTML == <<"t","e","x","t","/","h","t","m","l">>

\* Media types a server may send, in several spellings.
MediaTypes ==
    {MIME_TYPE_JSON,
     <<"A","P","P","L","I","C","A","T","I","O","N","/","J","S","O","N">>,
     <<"A","p","p","l","i","c","a","t","i","o","n","/","J","s","o","n">>,
     MIME_TYPE_JWT,
     <<"A","P","P","L","I","C","A","T","I","O","N","/","J","W","T">>,
     MIME_TYPE_JWKS,
     TEXT_HTML,
     <<"a","p","p","l","i","c","a","t","i","o","n","/","j","s","o","n","p">>}

\* Parameter segments as RFC 7231 section 3.1.1.1 writes them:
\* OWS ";" OWS parameter.
ParamSegments ==
    {<<";","c","h","a","r","s","e","t","=","u","t","f","-","8">>,
     <<" ",";"," ","c","h","a","r","s","e","t","=","u","t","f","-","8">>}

RECURSIVE ParamSuffixes(_)
ParamSuffixes(n) ==
    IF n = 0 THEN {<<>>}
    ELSE ParamSuffixes(n - 1)
         \cup {s \o p : s \in ParamSuffixes(n - 1), p \in ParamSegments}

\* Content-Type header values: a media type and up to MaxParams parameters.
ContentTypes == {m \o s : m \in MediaTypes, s \in ParamSuffixes(MaxParams)}

\* Response::header(CONTENT_TYPE): None, or the header's values in order.
ContentTypeHeaders ==
    {{}} \cup {{<<c>>} : c \in ContentTypes}
    \cup {{<<TEXT_HTML, MIME_TYPE_JSON>>}, {<<MIME_TYPE_JSON, TEXT_HTML>>}}

StatusCode_Ok == 200

StatusCodes == {200, 201, 404}

\* A success status: 2xx.
is_success(status) == status >= 200 /\ status < 300

Responses == [status : StatusCodes, header : ContentTypeHeaders, body : Bodies]

\* Errors of the injected HTTP client (the type RE).
RequestErrors == {"connection refused", "timed out"}

AccessTokens == {<<"t","o","k","1">>, <<"t","U+00E9">>}

UserInfoUrls == {<<"h","t","t","p","s",":","/","/","o","p","/","u","s","e","r","i","n","f","o">>}

\* ------------------------------------------------------------------------
\* UserInfoVerifier (crate::verification; claims policy of a signed response)
\* ------------------------------------------------------------------------

AllowedAlgs == {"RS256"}

\* The verifier a request holds: the two toggles and the expected subject.
\* Issuer, client id and allowed algorithms are fixed at construction.
UserInfoVerifiers ==
    [iss_required : BOOLEAN, aud_required : BOOLEAN,
     expected_subject : {{}} \cup {{s} : s \in Subjects}]

\* UserInfoVerifier::require_issuer_match
verifier_require_issuer_match(verifier, iss_required) ==
    [verifier EXCEPT !.iss_required = iss_required]

\* UserInfoVerifier::require_audience_match
verifier_require_audience_match(verifier, aud_required) ==
    [verifier EXCEPT !.aud_required = aud_required]

\* serde deserialisation into UserInfoClaimsImpl: Some(claims) when the
\* bytes are a JSON object with a sub, None (a serde error) otherwise.
deserialize_claims(doc) ==
    IF doc.sub = {} THEN {}
    ELSE {[iss |-> doc.iss, aud |-> doc.aud, sub |-> unwrap(doc.sub)]}

\* Signature verification: algorithm allow-list, the unsigned algorithm,
\* the signature itself, then the payload's decoding.
verify_signature(jwt) ==
    IF jwt.alg \notin AllowedAlgs /\ jwt.alg # "none"
    THEN [ok |-> FALSE, err |-> [error |-> "UnsupportedAlgorithm"]]
    ELSE IF jwt.alg = "none"
    THEN [ok |-> FALSE, err |-> [error |-> "SignatureVerification"]]
    ELSE IF ~jwt.sig_valid
    THEN [ok |-> FALSE, err |-> [error |-> "CryptoError"]]
    ELSE IF deserialize_claims(jwt.payload) = {}
    THEN [ok |-> FALSE, err |-> [error |-> "ClaimsParsing"]]
    ELSE [ok |-> TRUE, claims |-> unwrap(deserialize_claims(jwt.payload))]

\* Claims policy, in its fixed order: issuer, audience, subject.
check_claims(verifier, claims) ==
    IF verifier.iss_required /\ claims.iss # {Issuer}
    THEN [ok |-> FALSE, err |-> [error |-> "IssuerMismatch"]]
    ELSE IF verifier.aud_required
            /\ (claims.aud = {}
                \/ \A i \in 1..Len(unwrap(claims.aud)) : unwrap(claims.aud)[i] # ClientId)
    THEN [ok |-> FALSE, err |-> [error |-> "AudienceMismatch"]]
    ELSE IF \E e \in verifier.expected_subject : claims.sub # e
    THEN [ok |-> FALSE,
          err |-> InvalidSubject(unwrap(verifier.expected_subject), claims.sub)]
    ELSE [ok |-> TRUE, claims |-> claims]

\* UserInfoVerifier::verified_claims: the signature, then the claims policy.
verified_claims(verifier, jwt) ==
    LET sig == verify_signature(jwt)
    IN  IF ~sig.ok THEN sig ELSE check_claims(verifier, sig.claims)

\* ------------------------------------------------------------------------
\* user_info.rs: UserInfoClaims::from_json
\* ------------------------------------------------------------------------

\* serde_json::from_slice::<UserInfoClaimsImpl>(bytes)
from_slice(user_info_json) ==
    IF user_info_json.kind = "json" THEN deserialize_claims(user_info_json.doc) ELSE {}

\* The subject test with `any` in place of `all`: false when no subject is expected.
subject_matches_Any(user_info, expected_subject) ==
    \E e \in expected_subject : user_info.sub = e

\* The subject test left out: every subject passes.
subject_matches_Always(user_info, expected_subject) == TRUE

\* expected_subject.iter().all(|expected_subject| sub == **expected_subject)
subject_matches(user_info, expected_subject) ==
    \A e \in expected_subject : user_info.sub = e

from_json(user_info_json, expected_subject) ==
    LET parsed == from_slice(user_info_json)
    IN  IF parsed = {} THEN Parse
        ELSE IF subject_matches(unwrap(parsed), expected_subject)
        THEN Ok(unwrap(parsed))
        ELSE IF expected_subject = {}
        THEN Panic("called Option::unwrap() on a None value")
        ELSE ClaimsVerification(
                 InvalidSubject(unwrap(expected_subject), unwrap(parsed).sub))

\* ------------------------------------------------------------------------
\* user_info.rs: UserInfoJsonWebToken
\* ------------------------------------------------------------------------

\* serde_json::from_value::<UserInfoJsonWebToken>(Value::String(jwt_str))
parse_jwt(jwt_str) == IF jwt_str.kind = "jwt" THEN {jwt_str} ELSE {}

\* UserInfoJsonWebToken::claims
claims(jwt, verifier) == verified_claims(verifier, jwt)

\* .claims(&verifier).map_err(UserInfoError::ClaimsVerification)
jwt_result(verified) ==
    IF verified.ok THEN Ok(verified.claims) ELSE ClaimsVerification(verified.err)

\* ------------------------------------------------------------------------
\* user_info.rs: UserInfoRequest
\* ------------------------------------------------------------------------

UserInfoRequests ==
    [url : UserInfoUrls, access_token : AccessTokens,
     require_signed_response : BOOLEAN,
     signed_response_verifier : UserInfoVerifiers]

\* prepare_request: Some(request), or None where auth_bearer panics.
prepare_request(self) ==
    LET auth == auth_bearer(self.access_token)
    IN  IF auth = {} THEN {}
        ELSE {[method |-> "GET", url |-> self.url,
               headers |-> {<<"accept", MIME_TYPE_JSON>>, unwrap(auth)},
               body |-> <<>>]}

\* Body::body_bytes: None when the stream fails.
body_bytes(body) == IF body.kind = "unreadable" THEN {} ELSE {body}

\* Body::body_string: None when the stream fails or the bytes are not UTF-8.
body_string(body) ==
    IF body.kind \in {"unreadable", "invalid_utf8"} THEN {} ELSE {body}

\* A status test that lets every status below 500 through.
status_unexpected_ServerErrorsOnly(status) == status >= 500

\* http_response.status() != StatusCode::Ok
status_unexpected(status) == status # StatusCode_Ok

\* The dispatch with application/jwt taken for a response without the header.
dispatch_content_type_DefaultJwt(http_response) ==
    IF http_response.header = {} THEN <<MIME_TYPE_JWT>>
    ELSE unwrap(http_response.header)

\* The content type the response is dispatched on: the header's values, or
\* application/json when the response has none.
dispatch_content_type(http_response) ==
    IF http_response.header = {} THEN <<MIME_TYPE_JSON>>
    ELSE unwrap(http_response.header)

\* The JSON arm with the claims also put to the verifier's issuer and
\* audience policy.
json_arm_WithPolicy(self, http_response) ==
    LET body == body_bytes(http_response.body)
        res  == from_json(unwrap(body), self.signed_response_verifier.expected_subject)
        chk  == check_claims(self.signed_response_verifier, res.claims)
    IN  IF self.require_signed_response
        THEN [result |-> ClaimsVerification(NoSignature), trace |-> <<>>]
        ELSE IF body = {}
        THEN [result |-> Other("Body problems"), trace |-> <<"read_body">>]
        ELSE IF res.kind = "Ok" /\ ~chk.ok
        THEN [result |-> ClaimsVerification(chk.err),
              trace |-> <<"read_body", "from_json", "verifier">>]
        ELSE [result |-> res, trace |-> <<"read_body", "from_json">>]

\* The arm of application/json (user_info.rs lines 108-119).
json_arm(self, http_response) ==
    LET body == body_bytes(http_response.body)
    IN  IF self.require_signed_response
        THEN [result |-> ClaimsVerification(NoSignature), trace |-> <<>>]
        ELSE IF body = {}
        THEN [result |-> Other("Body problems"), trace |-> <<"read_body">>]
        ELSE [result |-> from_json(unwrap(body),
                                   self.signed_response_verifier.expected_subject),
              trace |-> <<"read_body", "from_json">>]

\* The arm of application/jwt (user_info.rs lines 120-130).
jwt_arm(self, http_response) ==
    LET jwt_str == body_string(http_response.body)
        jwt     == parse_jwt(unwrap(jwt_str))
    IN  IF jwt_str = {}
        THEN [result |-> Other("response body has invalid UTF-8 encoding"),
              trace |-> <<"read_body">>]
        ELSE IF jwt = {}
        THEN [result |-> Parse, trace |-> <<"read_body", "parse_jwt">>]
        ELSE [result |-> jwt_result(claims(unwrap(jwt), self.signed_response_verifier)),
              trace |-> <<"read_body", "parse_jwt", "verifier">>]

\* The last arm with every other content type handled as JSON.
other_arm_AsJson(self, http_response, content_type) ==
    json_arm(self, [http_response EXCEPT !.header = {}])

\* The last arm (user_info.rs lines 131-135): any other content type.
other_arm(self, http_response, content_type) ==
    [result |-> Response(http_response.status, http_response.body,
                         [text |-> "unexpected response Content-Type",
                          content_type |-> content_type]),
     trace |-> <<>>]

\* user_info_response: the result, and the steps taken on the response in
\* order ("status", "content_type", then those of the arm).
user_info_response(self, http_response) ==
    IF status_unexpected(http_response.status)
    THEN [result |-> Response(http_response.status, http_response.body,
                              "unexpected HTTP status code"),
          trace |-> <<"status">>]
    ELSE LET content_type == dispatch_content_type(http_response)
             arm == IF content_type_has_essence(content_type[1], MIME_TYPE_JSON)
                    THEN json_arm(self, http_response)
                    ELSE IF content_type_has_essence(content_type[1], MIME_TYPE_JWT)
                    THEN jwt_arm(self, http_response)
                    ELSE other_arm(self, http_response, content_type)
         IN  [result |-> arm.result,
              trace |-> <<"status", "content_type">> \o arm.trace]

\* .map_err(UserInfoError::Request) with the client's error dropped.
request_error_Generic(err) == Other("request failed")

\* .map_err(UserInfoError::Request)
request_error(err) == Request(err)

\* ------------------------------------------------------------------------
\* State
\* ------------------------------------------------------------------------

VARIABLES
    self,           \* the UserInfoRequest
    pc,             \* where request() is: "idle" (no request object yet),
                    \* "built", "awaiting" (the client's future), "done", "panicked"
    http_request,   \* Option: the request handed to the HTTP client
    client_calls,   \* how many times the HTTP client was invoked
    client_result,  \* Option: what the client's future resolved to
    result,         \* Option: what request() returned
    trace,          \* the steps user_info_response took on the response
    flow,           \* the orchestration around the request (auth0.rs main)
    call,           \* a direct call of a pure function: its name and arguments
    ret             \* Option: what that call returned

vars == <<self, pc, http_request, client_calls, client_result, result, trace,
          flow, call, ret>>

\* The orchestration's record; pc "none" where no orchestration runs.
NoFlow ==
    [pc |-> "none", nonce |-> {}, csrf_state |-> {}, callback |-> {},
     exchanges |-> 0, token_response |-> {}, verify_nonce |-> {},
     id_state |-> "none", trusted_subject |-> {},
     exchanged_code |-> {}, verifier |-> {}, events |-> <<>>]

NoCall == [fn |-> "none"]

\* ------------------------------------------------------------------------
\* Operations of a UserInfoRequest
\* ------------------------------------------------------------------------

\* Where the calls of the options are recorded (call.fn = "builder"), the
\* record with the argument of this call as the last one given to the option.
option_called(option, argument) ==
    IF call.fn = "builder" THEN [call EXCEPT ![option] = {argument}] ELSE call

\* UserInfoRequest::require_signed_response
require_signed_response(b) ==
    /\ pc = "built"
    /\ self' = [self EXCEPT !.require_signed_response = b]
    /\ call' = option_called("require_signed_response", b)
    /\ UNCHANGED <<pc, http_request, client_calls, client_result, result, trace,
                   flow, ret>>

\* require_issuer_match handing its argument to the verifier's
\* require_audience_match.
require_issuer_match_SetsAudience(iss_required) ==
    /\ pc = "built"
    /\ self' = [self EXCEPT !.signed_response_verifier =
                   verifier_require_audience_match(@, iss_required)]
    /\ call' = option_called("require_issuer_match", iss_required)
    /\ UNCHANGED <<pc, http_request, client_calls, client_result, result, trace,
                   flow, ret>>

\* UserInfoRequest::require_issuer_match
require_issuer_match(iss_required) ==
    /\ pc = "built"
    /\ self' = [self EXCEPT !.signed_response_verifier =
                   verifier_require_issuer_match(@, iss_required)]
    /\ call' = option_called("require_issuer_match", iss_required)
    /\ UNCHANGED <<pc, http_request, client_calls, client_result, result, trace,
                   flow, ret>>

\* UserInfoRequest::require_audience_match
require_audience_match(aud_required) ==
    /\ pc = "built"
    /\ self' = [self EXCEPT !.signed_response_verifier =
                   verifier_require_audience_match(@, aud_required)]
    /\ call' = option_called("require_audience_match", aud_required)
    /\ UNCHANGED <<pc, http_request, client_calls, client_result, result, trace,
                   flow, ret>>

\* request(), up to the await of the client's future: the request is
\* prepared and the client (a FnOnce) is invoked with it.
request_send ==
    /\ pc = "built"
    /\ LET prepared == prepare_request(self)
       IN  IF prepared = {}
           THEN /\ pc' = "panicked"
                /\ result' = {Panic("invalid access token")}
                /\ UNCHANGED <<http_request, client_calls>>
           ELSE /\ pc' = "awaiting"
                /\ http_request' = prepared
                /\ client_calls' = client_calls + 1
                /\ UNCHANGED result
    /\ UNCHANGED <<self, client_result, trace, flow, call, ret>>

\* What request() returns once the client's future has resolved to r.
request_resume(r) ==
    IF ~r.ok THEN [result |-> request_error(r.err), trace |-> <<>>]
    ELSE user_info_response(self, r.response)

request_finish(r) ==
    /\ pc = "awaiting"
    /\ client_result' = {r}
    /\ \E out \in {request_resume(r)} :
          /\ result' = {out.result}
          /\ trace' = out.trace
          /\ pc' = IF out.result.kind = "panic" THEN "panicked" ELSE "done"
    /\ UNCHANGED <<self, http_request, client_calls, flow, call, ret>>

\* request(), resumed with Err(e) from the client.
client_error ==
    /\ pc = "awaiting"
    /\ \E e \in RequestErrors : request_finish([ok |-> FALSE, err |-> e])

\* request(), resumed with Ok(response) from the client, the response being
\* one of `responses`.
client_response_from(responses) ==
    /\ pc = "awaiting"
    /\ \E resp \in responses : request_finish([ok |-> TRUE, response |-> resp])

client_response == client_response_from(Responses)

Init ==
    /\ self \in UserInfoRequests
    /\ pc = "built"
    /\ http_request = {}
    /\ client_calls = 0
    /\ client_result = {}
    /\ result = {}
    /\ trace = <<>>
    /\ flow = NoFlow
    /\ call = NoCall
    /\ ret = {}

Next ==
    \/ \E b \in BOOLEAN : require_signed_response(b)
    \/ \E b \in BOOLEAN : require_issuer_match(b)
    \/ \E b \in BOOLEAN : require_audience_match(b)
    \/ request_send
    \/ client_error
    \/ client_response

Spec == Init /\ [][Next]_vars

\* ------------------------------------------------------------------------
\* The options of a UserInfoRequest, called in any order and number
\* ------------------------------------------------------------------------

\* A request as constructed, with no option called on it yet.
InitBuilder ==
    /\ self \in UserInfoRequests
    /\ pc = "built"
    /\ http_request = {}
    /\ client_calls = 0
    /\ client_result = {}
    /\ result = {}
    /\ trace = <<>>
    /\ flow = NoFlow
    /\ call = [fn |-> "builder", initial |-> self,
               require_signed_response |-> {}, require_issuer_match |-> {},
               require_audience_match |-> {}]
    /\ ret = {}

NextBuilder ==
    \/ \E b \in BOOLEAN : require_signed_response(b)
    \/ \E b \in BOOLEAN : require_issuer_match(b)
    \/ \E b \in BOOLEAN : require_audience_match(b)

SpecBuilder == InitBuilder /\ [][NextBuilder]_vars

\* ------------------------------------------------------------------------
\* user_info.rs: UserInfoClaimsImpl with a catch-all additional claims type
\* ------------------------------------------------------------------------

\* The claims of StandardClaims (the getters and setters of UserInfoClaims).
StandardClaimNames ==
    {"sub", "name", "given_name", "family_name", "middle_name", "nickname",
     "preferred_username", "profile", "picture", "website", "email",
     "email_verified", "gender", "birthday", "zoneinfo", "locale",
     "phone_number", "phone_number_verified", "address", "updated_at"}

\* The named fields with the rename of iss left out: the field is "issuer".
NamedFields_NoRename == {"issuer", "aud"}

\* The fields UserInfoClaimsImpl names itself: #[serde(rename = "iss")] and
\* #[serde(rename = "aud")].
NamedFields == {"iss", "aud"}

\* The field names of the model's documents, in the order a document is
\* written: the named fields, the standard claims, then the others.
WireNames == <<"iss", "aud", "sub", "name", "updated_at", "tfa_method", "custom">>

WireValues == {"v1", "v2"}

\* JSON objects: some of the names, each with a value.
WireDocs ==
    UNION {[names -> WireValues] :
             names \in SUBSET {WireNames[i] : i \in 1..Len(WireNames)}}

Restrict(f, names) == [n \in names |-> f[n]]

\* FilteredFlatten<StandardClaims, AC>, deserialising: the entries whose
\* names are not claims of StandardClaims reach AC.
filtered_flatten_deserialize(entries) ==
    Restrict(entries, DOMAIN entries \ StandardClaimNames)

\* FilteredFlatten, serialising: the additional claims whose names do not
\* collide with a claim already written.
filtered_flatten_serialize(additional, written) ==
    Restrict(additional, DOMAIN additional \ DOMAIN written)

\* Deserialize of UserInfoClaimsImpl<AllOtherClaims, GC>: the named fields
\* take their entries, the flattened fields are given the rest; None where
\* sub is missing.
deserialize_claims_impl(doc) ==
    LET rest == Restrict(doc, DOMAIN doc \ NamedFields)
    IN  IF "sub" \notin DOMAIN doc THEN {}
        ELSE {[issuer |-> IF "iss" \in DOMAIN doc THEN {doc["iss"]} ELSE {},
               audiences |-> IF "aud" \in DOMAIN doc THEN {doc["aud"]} ELSE {},
               standard_claims |-> Restrict(rest, DOMAIN rest \cap StandardClaimNames),
               additional_claims |-> filtered_flatten_deserialize(rest)]}

\* The entries of a map as a sequence of <<name, value>>, in wire order.
entries_in_order(map) ==
    LET names == SelectSeq(WireNames, LAMBDA n : n \in DOMAIN map)
    IN  [i \in 1..Len(names) |-> <<names[i], map[names[i]]>>]

\* Serialize of UserInfoClaimsImpl: iss and aud unless None, the standard
\* claims, then the additional claims.
serialize_claims_impl(c) ==
    LET iss == IF c.issuer = {} THEN <<>> ELSE <<<<"iss", unwrap(c.issuer)>>>>
        aud == IF c.audiences = {} THEN <<>> ELSE <<<<"aud", unwrap(c.audiences)>>>>
        written == [n \in ({"iss" : x \in c.issuer} \cup {"aud" : x \in c.audiences}
                           \cup DOMAIN c.standard_claims) |->
                      IF n = "iss" THEN unwrap(c.issuer)
                      ELSE IF n = "aud" THEN unwrap(c.audiences)
                      ELSE c.standard_claims[n]]
    IN  iss \o aud \o entries_in_order(c.standard_claims)
        \o entries_in_order(filtered_flatten_serialize(c.additional_claims, written))

\* additional_claims_mut(): the caller puts entries of its own into the
\* catch-all map.
AddedClaims ==
    UNION {[names -> {"added"}] : names \in SUBSET {"sub", "iss", "custom"}}

with_added_claims(c, added) ==
    [c EXCEPT !.additional_claims =
        [n \in DOMAIN added \cup DOMAIN @ |->
            IF n \in DOMAIN added THEN added[n] ELSE @[n]]]

\* http_utils.rs: check_content_type. A response without the header passes;
\* one with it passes when any of its values has the expected essence, and
\* fails with a message of the values received and the type expected.
check_content_type(header, expected_content_type) ==
    IF header = {} THEN [ok |-> TRUE]
    ELSE LET content_type == unwrap(header)
         IN  IF ~(\E i \in 1..Len(content_type) :
                    content_type_has_essence(content_type[i], expected_content_type))
             THEN [ok |-> FALSE,
                   err |-> <<"Unexpected response Content-Type: ", content_type,
                             ", should be ", expected_content_type>>]
             ELSE [ok |-> TRUE]

\* ------------------------------------------------------------------------
\* Direct calls of the pure functions
\* ------------------------------------------------------------------------

ExpectedEssences ==
    {MIME_TYPE_JSON, MIME_TYPE_JWT, MIME_TYPE_JWKS,
     <<"A","p","p","l","i","c","a","t","i","o","n","/","J","s","o","n">>}

PureCalls ==
    {[fn |-> "content_type_has_essence", content_type |-> c, expected_essence |-> e] :
        c \in ContentTypes, e \in ExpectedEssences}
    \cup {[fn |-> "from_json", user_info_json |-> b, expected_subject |-> x] :
            b \in Bodies, x \in {{}} \cup {{sub} : sub \in Subjects}}
    \cup {[fn |-> "check_content_type", header |-> h, expected_content_type |-> e] :
            h \in ContentTypeHeaders, e \in ExpectedEssences}
    \cup {[fn |-> "deserialize_claims_impl", doc |-> d] : d \in WireDocs}
    \cup {[fn |-> "serialize_claims_impl",
           claims |-> with_added_claims(unwrap(deserialize_claims_impl(d)), a)] :
            d \in {w \in WireDocs : "sub" \in DOMAIN w /\ w["sub"] = "v1"},
            a \in AddedClaims}

\* The request object of the runs that only call pure functions.
IdleRequest ==
    [url |-> <<>>, access_token |-> <<>>, require_signed_response |-> FALSE,
     signed_response_verifier |->
        [iss_required |-> FALSE, aud_required |-> FALSE, expected_subject |-> {}]]

apply_content_type_has_essence ==
    /\ call.fn = "content_type_has_essence"
    /\ ret = {}
    /\ ret' = {content_type_has_essence(call.content_type, call.expected_essence)}
    /\ UNCHANGED <<self, pc, http_request, client_calls, client_result, result,
                   trace, flow, call>>

apply_from_json ==
    /\ call.fn = "from_json"
    /\ ret = {}
    /\ ret' = {from_json(call.user_info_json, call.expected_subject)}
    /\ UNCHANGED <<self, pc, http_request, client_calls, client_result, result,
                   trace, flow, call>>

apply_check_content_type ==
    /\ call.fn = "check_content_type"
    /\ ret = {}
    /\ ret' = {check_content_type(call.header, call.expected_content_type)}
    /\ UNCHANGED <<self, pc, http_request, client_calls, client_result, result,
                   trace, flow, call>>

apply_deserialize_claims_impl ==
    /\ call.fn = "deserialize_claims_impl"
    /\ ret = {}
    /\ ret' = {deserialize_claims_impl(call.doc)}
    /\ UNCHANGED <<self, pc, http_request, client_calls, client_result, result,
                   trace, flow, call>>

apply_serialize_claims_impl ==
    /\ call.fn = "serialize_claims_impl"
    /\ ret = {}
    /\ ret' = {serialize_claims_impl(call.claims)}
    /\ UNCHANGED <<self, pc, http_request, client_calls, client_result, result,
                   trace, flow, call>>

InitPure ==
    /\ call \in PureCalls
    /\ ret = {}
    /\ self = IdleRequest
    /\ pc = "idle"
    /\ http_request = {}
    /\ client_calls = 0
    /\ client_result = {}
    /\ result = {}
    /\ trace = <<>>
    /\ flow = NoFlow

NextPure ==
    \/ apply_content_type_has_essence
    \/ apply_from_json
    \/ apply_check_content_type
    \/ apply_deserialize_claims_impl
    \/ apply_serialize_claims_impl

SpecPure == InitPure /\ [][NextPure]_vars

\* ------------------------------------------------------------------------
\* The orchestration: examples/auth0.rs main, followed by UserInfo retrieval
\* ------------------------------------------------------------------------

Nonces == {"n-0S6_WzA2Mj", "n-other"}

CsrfTokens == {"csrf-1"}

AuthorizationCodes == {"code-1"}

\* ID tokens as received in a token response.
IdTokens ==
    [sig_valid : BOOLEAN, iss : {Issuer, OtherIssuer},
     aud : {<<ClientId>>, <<OtherClientId>>}, sub : Subjects,
     nonce : {{}} \cup {{n} : n \in Nonces}]

\* What exchange_code(..).request(..).await resolves to: an error of the
\* transport, or a token response with or without an ID token.
TokenResults ==
    {[ok |-> FALSE]}
    \cup [ok : {TRUE}, access_token : {<<"t","o","k","1">>},
          id_token : {{}} \cup {{t} : t \in IdTokens}]

\* The redirect requests the listener may receive: with code and state (the
\* state as issued or another), or without them.
Callbacks ==
    {[has_params |-> FALSE]}
    \cup [has_params : {TRUE}, code : AuthorizationCodes,
          state : CsrfTokens \cup {"csrf-forged"}]

\* ID Token verification, stage by stage: Received -> SignatureVerified ->
\* ClaimsChecked -> Trusted, or Rejected at the first failure.
id_token_verify(id_token, client_id, issuer, nonce) ==
    IF ~id_token.sig_valid THEN [state |-> "Rejected", at |-> "Received"]
    ELSE IF id_token.iss # issuer
            \/ \A i \in 1..Len(id_token.aud) : id_token.aud[i] # client_id
            \/ id_token.nonce # {nonce}
    THEN [state |-> "Rejected", at |-> "SignatureVerified"]
    ELSE [state |-> "Trusted", at |-> "ClaimsChecked"]

\* The responses the user info endpoint gives within the orchestration.
FlowResponses ==
    [status : {200, 404},
     header : {{}, {<<MIME_TYPE_JSON>>}, {<<MIME_TYPE_JWT>>}, {<<TEXT_HTML>>}},
     body : Bodies]

uvars == <<self, pc, http_request, client_calls, client_result, result, trace>>

\* The client as main configures it: CoreClient::from_provider_metadata with
\* the discovered metadata of the issuer and the client id.
Client == [client_id |-> ClientId, issuer |-> Issuer]

\* client.id_token_verifier(): a verifier for the client's id and issuer.
id_token_verifier(client) ==
    [client_id |-> client.client_id, issuer |-> client.issuer]

\* A nonce generated anew at verification instead of the one of the flow.
verification_nonce_Fresh(f) == {CHOOSE n \in Nonces : {n} # f.nonce}

\* The nonce handed to claims(&id_token_verifier, &nonce): the local bound
\* by authorize_url(..).url().
verification_nonce(f) == f.nonce

\* client.authorize_url(.., CsrfToken::new_random, Nonce::new_random).url()
authorize_url ==
    /\ flow.pc = "start"
    /\ \E n \in Nonces, c \in CsrfTokens :
         flow' = [flow EXCEPT !.pc = "listening", !.nonce = {n}, !.csrf_state = {c},
                              !.events = Append(@, "authorize_url")]
    /\ UNCHANGED <<uvars, call, ret>>

\* The listener takes the first connection and reads code and state from the
\* request line; a request without them panics on unwrap.
redirect_callback ==
    /\ flow.pc = "listening"
    /\ \E cb \in Callbacks :
         flow' = IF cb.has_params
                 THEN [flow EXCEPT !.pc = "callback", !.callback = {cb},
                                   !.events = Append(@, "callback")]
                 ELSE [flow EXCEPT !.pc = "panicked"]
    /\ UNCHANGED <<uvars, call, ret>>

\* client.exchange_code(code).request(async_http_client).await.unwrap()
exchange_code ==
    /\ flow.pc = "callback"
    /\ \E r \in TokenResults :
         flow' = IF r.ok
                 THEN [flow EXCEPT !.pc = "exchanged", !.exchanges = @ + 1,
                                   !.exchanged_code = {unwrap(flow.callback).code},
                                   !.token_response = {r},
                                   !.events = @ \o <<"exchange_code", "token_response">>]
                 ELSE [flow EXCEPT !.pc = "panicked", !.exchanges = @ + 1,
                                   !.exchanged_code = {unwrap(flow.callback).code},
                                   !.events = Append(@, "exchange_code")]
    /\ UNCHANGED <<uvars, call, ret>>

\* token_response.extra_fields().id_token().expect(..)
\*     .claims(&id_token_verifier, &nonce): verified claims, or
\* handle_error and exit(1); a response without an ID token panics.
id_token_claims ==
    /\ flow.pc = "exchanged"
    /\ LET id_token == unwrap(flow.token_response).id_token
           verifier == id_token_verifier(Client)
           nonce == verification_nonce(flow)
           verdict == id_token_verify(unwrap(id_token), verifier.client_id,
                                      verifier.issuer, unwrap(nonce))
       IN  IF id_token = {}
           THEN flow' = [flow EXCEPT !.pc = "panicked"]
           ELSE flow' = [flow EXCEPT
                    !.verify_nonce = nonce,
                    !.verifier = {verifier},
                    !.events = Append(@, "claims"),
                    !.id_state = verdict.state,
                    !.trusted_subject =
                        IF verdict.state = "Trusted" THEN {unwrap(id_token).sub} ELSE {},
                    !.pc = IF verdict.state = "Trusted" THEN "verified" ELSE "exit"]
    /\ UNCHANGED <<uvars, call, ret>>

\* The server terminates after the first code: break.
flow_break ==
    /\ flow.pc = "verified"
    /\ flow' = [flow EXCEPT !.pc = "end"]
    /\ UNCHANGED <<uvars, call, ret>>

\* UserInfo retrieval with the now-trusted subject: the request is built
\* from the token response's access token and the ID token's subject.
user_info ==
    /\ flow.pc = "verified"
    /\ pc = "idle"
    /\ flow' = [flow EXCEPT !.pc = "userinfo"]
    /\ pc' = "built"
    /\ self' = [url |-> CHOOSE u \in UserInfoUrls : TRUE,
                access_token |-> unwrap(flow.token_response).access_token,
                require_signed_response |-> FALSE,
                signed_response_verifier |->
                    [iss_required |-> FALSE, aud_required |-> FALSE,
                     expected_subject |-> flow.trusted_subject]]
    /\ UNCHANGED <<http_request, client_calls, client_result, result, trace,
                   call, ret>>

InitFlow ==
    /\ flow = [NoFlow EXCEPT !.pc = "start"]
    /\ self = IdleRequest
    /\ pc = "idle"
    /\ http_request = {}
    /\ client_calls = 0
    /\ client_result = {}
    /\ result = {}
    /\ trace = <<>>
    /\ call = NoCall
    /\ ret = {}

NextFlow ==
    \/ authorize_url
    \/ redirect_callback
    \/ exchange_code
    \/ id_token_claims
    \/ flow_break
    \/ user_info
    \/ \E b \in BOOLEAN : require_signed_response(b)
    \/ \E b \in BOOLEAN : require_issuer_match(b)
    \/ \E b \in BOOLEAN : require_audience_match(b)
    \/ request_send
    \/ client_error
    \/ client_response_from(FlowResponses)

SpecFlow == InitFlow /\ [][NextFlow]_vars

\* ------------------------------------------------------------------------
\* Notions the properties are stated with
\* ------------------------------------------------------------------------

\* Optional whitespace of RFC 7231: space and horizontal tab.
OWS == {" ", "\t"}

RECURSIVE trim_end(_)
trim_end(s) ==
    IF s # <<>> /\ s[Len(s)] \in OWS THEN trim_end(SubSeq(s, 1, Len(s) - 1)) ELSE s

RECURSIVE trim_start(_)
trim_start(s) ==
    IF s # <<>> /\ s[1] \in OWS THEN trim_start(SubSeq(s, 2, Len(s))) ELSE s

\* The essence of a media type (RFC 7231 section 3.1.1.1, WHATWG mimesniff):
\* its type "/" subtype in lower case, without the parameters and without
\* the optional whitespace around them.
media_type_essence(ct) ==
    LET semis == {i \in 1..Len(ct) : ct[i] = ";"}
        cut   == IF semis = {} THEN Len(ct)
                 ELSE (CHOOSE i \in semis : \A j \in semis : i <= j) - 1
    IN  to_lowercase(trim_start(trim_end(SubSeq(ct, 1, cut))))

\* The client's future resolved to a response, and request() has returned.
Responded == pc = "done" /\ client_result # {} /\ unwrap(client_result).ok

TheResponse == unwrap(client_result).response

TheResult == unwrap(result)

\* The response declares a Content-Type, and the essence of its (first)
\* value is e.
DeclaresEssence(e) ==
    /\ TheResponse.header # {}
    /\ media_type_essence(unwrap(TheResponse.header)[1]) = e

\* ------------------------------------------------------------------------
\* Properties
\* ------------------------------------------------------------------------

\* C1: a status-200 response whose Content-Type has the essence
\* application/json, to a request with require_signed_response = true, gives
\* ClaimsVerification(NoSignature), and the body is neither read nor parsed.
C1_NoSignatureBeforeParsing ==
    (Responded /\ TheResponse.status = 200 /\ DeclaresEssence(MIME_TYPE_JSON)
        /\ self.require_signed_response)
    => /\ TheResult = ClaimsVerification(NoSignature)
       /\ \A i \in 1..Len(trace) : trace[i] \notin {"read_body", "from_json"}

\* C2: a response whose status is not a success status gives a Response error
\* with that status, the body as received and a diagnostic message, whatever the
\* Content-Type and require_signed_response; the status check is the only step
\* taken (no body read, no parsing, no verification).
C2_NonSuccessStatusIsResponseError ==
    (Responded /\ ~is_success(TheResponse.status))
    => /\ TheResult = Response(TheResponse.status, TheResponse.body,
                               "unexpected HTTP status code")
       /\ trace = <<"status">>

C2_Witness ==
    /\ Responded
    /\ TheResponse.status = 404
    /\ TheResponse.header = {<<MIME_TYPE_JWT>>}
    /\ TheResponse.body.kind = "jwt"
    /\ self.require_signed_response
    /\ TheResult.kind = "Response"

\* C3: a status-200 response that declares a Content-Type whose essence is
\* neither application/json nor application/jwt gives a Response error with
\* the status, the body as received and a message naming the content type;
\* claims are never returned for it.
C3_OtherContentTypeIsResponseError ==
    (Responded /\ TheResponse.status = 200 /\ TheResponse.header # {}
        /\ ~DeclaresEssence(MIME_TYPE_JSON) /\ ~DeclaresEssence(MIME_TYPE_JWT))
    => /\ TheResult = Response(200, TheResponse.body,
                               [text |-> "unexpected response Content-Type",
                                content_type |-> unwrap(TheResponse.header)])
       /\ trace = <<"status", "content_type">>

C3_Witness ==
    /\ Responded
    /\ TheResponse.status = 200
    /\ TheResponse.header = {<<TEXT_HTML>>}
    /\ TheResponse.body.kind = "json"
    /\ from_slice(TheResponse.body) # {}
    /\ TheResult.kind = "Response"

\* C4: for a status-200 response whose Content-Type has the essence
\* application/jwt, claims are returned only if the body parses as a JWT and
\* the verifier accepts it; a body that does not parse gives a Parse error
\* and the verifier decides nothing; a rejection by the verifier is returned
\* as ClaimsVerification with the verifier's own error.
C4_JwtResponse ==
    (Responded /\ TheResponse.status = 200 /\ DeclaresEssence(MIME_TYPE_JWT))
    => LET body == TheResponse.body
           verified == verified_claims(self.signed_response_verifier, body)
       IN  IF body.kind # "jwt"
           THEN /\ TheResult = Parse
                /\ \A i \in 1..Len(trace) : trace[i] # "verifier"
           ELSE IF verified.ok
           THEN TheResult = Ok(verified.claims)
           ELSE TheResult = ClaimsVerification(verified.err)

\* C5: from_json on a document that parses: with an expected subject, the
\* claims are returned exactly when the document's sub equals it, and a
\* subject error otherwise; without one, the claims are returned for every
\* sub.  The error branch never unwraps an absent expected subject.
C5_FromJsonSubject ==
    (call.fn = "from_json" /\ ret # {} /\ call.user_info_json.kind = "json"
        /\ call.user_info_json.doc.sub # {})
    => LET doc == call.user_info_json.doc
           parsed == [iss |-> doc.iss, aud |-> doc.aud, sub |-> unwrap(doc.sub)]
       IN  /\ unwrap(ret).kind # "panic"
           /\ call.expected_subject = {} => unwrap(ret) = Ok(parsed)
           /\ \A e \in call.expected_subject :
                /\ (unwrap(ret) = Ok(parsed)) <=> (parsed.sub = e)
                /\ parsed.sub # e =>
                     unwrap(ret) = ClaimsVerification(InvalidSubject(e, parsed.sub))

C5_Witness ==
    /\ call.fn = "from_json"
    /\ ret # {}
    /\ call.expected_subject # {}
    /\ unwrap(ret).kind = "ClaimsVerification"
    /\ unwrap(ret).err.error = "InvalidSubject"

\* C6: require_issuer_match and require_audience_match have no effect on an
\* unsigned JSON response: whatever the two options are set to, the same
\* status-200 application/json response gives the same result.
C6_TogglesHaveNoEffectOnJson ==
    (Responded /\ TheResponse.status = 200 /\ DeclaresEssence(MIME_TYPE_JSON))
    => \A iss_required, aud_required \in BOOLEAN :
         user_info_response(
             [self EXCEPT !.signed_response_verifier.iss_required = iss_required,
                          !.signed_response_verifier.aud_required = aud_required],
             TheResponse).result = TheResult

C6_Witness ==
    /\ Responded
    /\ TheResponse.status = 200
    /\ TheResponse.header = {<<MIME_TYPE_JSON>>}
    /\ self.signed_response_verifier.iss_required
    /\ self.signed_response_verifier.aud_required
    /\ TheResult.kind = "Ok"
    /\ TheResult.claims.iss = {OtherIssuer}
    /\ TheResult.claims.aud = {<<OtherClientId>>}

\* C7: request() invokes the HTTP client exactly once; when the client
\* returns an error e the result is Request(e), and no step is taken on a
\* response.
C7_ClientInvokedOnceErrorSurfaced ==
    /\ client_calls <= 1
    /\ pc \in {"awaiting", "done"} => client_calls = 1
    /\ (pc = "done" /\ client_result # {} /\ ~unwrap(client_result).ok)
       => /\ TheResult = Request(unwrap(client_result).err)
          /\ trace = <<>>

C7_Witness ==
    /\ pc = "done"
    /\ client_result = {[ok |-> FALSE, err |-> "timed out"]}
    /\ TheResult = Request("timed out")
    /\ client_calls = 1

\* C9: content_type_has_essence(content_type, expected) is true exactly when
\* the type/subtype of the value, parameters ignored, equals the expected
\* essence without regard to case.
C9_HasEssenceIffSameMediaType ==
    (call.fn = "content_type_has_essence" /\ ret # {})
    => (unwrap(ret) <=>
          media_type_essence(call.content_type) = to_lowercase(call.expected_essence))

\* C10: the request handed to the client is a GET of the user info URL with
\* Authorization "Bearer " followed by the access token's secret, Accept
\* application/json and an empty body, whatever the options of the request.
C10_PreparedRequest ==
    http_request # {}
    => unwrap(http_request) =
         [method |-> "GET", url |-> self.url,
          headers |-> {<<"accept", <<"a","p","p","l","i","c","a","t","i","o","n","/","j","s","o","n">>>>,
                       <<"authorization",
                         <<"B","e","a","r","e","r"," ">> \o self.access_token>>},
          body |-> <<>>]

C10_Witness ==
    /\ pc = "awaiting"
    /\ http_request # {}
    /\ self.access_token = <<"t","o","k","1">>
    /\ self.require_signed_response
    /\ self.signed_response_verifier.iss_required

C11_AdditionalClaimsMerged ==
    /\ (call.fn = "deserialize_claims_impl" /\ ret # {} /\ "sub" \in DOMAIN call.doc)
       => LET c == unwrap(unwrap(ret))
              mandatory == {"iss", "aud"} \cup StandardClaimNames
          IN  /\ c.additional_claims = Restrict(call.doc, DOMAIN call.doc \ mandatory)
              /\ {"sub", "updated_at"} \cap DOMAIN c.additional_claims = {}
    /\ (call.fn = "serialize_claims_impl" /\ ret # {})
       => LET out == unwrap(ret)
              c == call.claims
              value(n) == IF n = "iss" /\ c.issuer # {} THEN unwrap(c.issuer)
                          ELSE IF n = "aud" /\ c.audiences # {} THEN unwrap(c.audiences)
                          ELSE IF n \in DOMAIN c.standard_claims THEN c.standard_claims[n]
                          ELSE c.additional_claims[n]
          IN  /\ \A i, j \in 1..Len(out) : out[i][1] = out[j][1] => i = j
              /\ {out[i][1] : i \in 1..Len(out)} =
                    {"iss" : x \in c.issuer} \cup {"aud" : x \in c.audiences}
                    \cup DOMAIN c.standard_claims \cup DOMAIN c.additional_claims
              /\ \A i \in 1..Len(out) : out[i][2] = value(out[i][1])

\* The document of test_catch_all_additional_claims: only tfa_method reaches
\* the additional claims.
C11_Witness ==
    /\ call.fn = "deserialize_claims_impl"
    /\ DOMAIN call.doc = {"iss", "sub", "aud", "tfa_method", "updated_at"}
    /\ ret # {}
    /\ unwrap(ret) # {}
    /\ DOMAIN unwrap(unwrap(ret)).additional_claims = {"tfa_method"}

\* The position of an event of the flow, 0 where it did not happen.
EventAt(e) ==
    IF \E i \in 1..Len(flow.events) : flow.events[i] = e
    THEN CHOOSE i \in 1..Len(flow.events) : flow.events[i] = e
    ELSE 0

EventCount(e) == Cardinality({i \in 1..Len(flow.events) : flow.events[i] = e})

\* C12: in the orchestration, ID Token verification is given the nonce that
\* authorize_url generated for the flow and a verifier of the configured
\* client; the authorization code is exchanged only after the redirect
\* callback delivered code and state, once and never again, and it is the
\* delivered code; the ID token is verified only after the token response
\* of that exchange was received.
C12_FlowOrderAndNonce ==
    /\ EventCount("exchange_code") = flow.exchanges
    /\ flow.exchanges <= 1
    /\ flow.pc \in {"exchanged", "verified", "exit", "end", "userinfo"}
       => flow.exchanges = 1
    /\ flow.exchanges = 1
       => /\ flow.callback # {}
          /\ unwrap(flow.callback).has_params
          /\ flow.exchanged_code = {unwrap(flow.callback).code}
          /\ 0 < EventAt("authorize_url")
          /\ EventAt("authorize_url") < EventAt("callback")
          /\ EventAt("callback") < EventAt("exchange_code")
    /\ EventCount("claims") <= 1
    /\ (EventCount("claims") = 1) = (flow.id_state # "none")
    /\ flow.id_state # "none"
       => /\ flow.token_response # {}
          /\ EventAt("exchange_code") < EventAt("token_response")
          /\ EventAt("token_response") < EventAt("claims")
          /\ flow.nonce # {}
          /\ flow.verify_nonce = flow.nonce
          /\ flow.verifier = {[client_id |-> Client.client_id, issuer |-> Client.issuer]}

\* A flow whose ID token was verified and trusted with the nonce of the flow.
C12_Witness ==
    /\ flow.id_state = "Trusted"
    /\ flow.exchanges = 1
    /\ flow.verify_nonce = flow.nonce
    /\ flow.nonce = {"n-other"}
    /\ flow.events = <<"authorize_url", "callback", "exchange_code",
                       "token_response", "claims">>

\* C13: check_content_type returns Ok for a response without a
\* Content-Type header; for one with the header it returns Ok exactly when
\* at least one of the values is the expected media type, compared without
\* regard to case, the media type possibly followed by optional whitespace
\* and/or a parameter; otherwise it returns an error that names the values
\* received and the type expected.
C13_CheckContentType ==
    (call.fn = "check_content_type" /\ ret # {})
    => LET out == unwrap(ret)
           values == unwrap(call.header)
       IN  IF call.header = {} THEN out.ok
           ELSE /\ out.ok <=>
                     \E i \in 1..Len(values) :
                        media_type_essence(values[i])
                            = to_lowercase(call.expected_content_type)
                /\ ~out.ok => /\ out.err[2] = values
                              /\ out.err[4] = call.expected_content_type

\* C14: a status-200 response without a Content-Type header is handled
\* exactly as one declaring application/json: NoSignature when
\* require_signed_response is set, otherwise the body parsed as unsigned JSON
\* with the subject check alone; never a Response error and never the
\* verification of a JWT.
C14_MissingContentTypeIsJson ==
    (Responded /\ TheResponse.status = 200 /\ TheResponse.header = {})
    => LET as_json == user_info_response(
                          self, [TheResponse EXCEPT !.header = {<<MIME_TYPE_JSON>>}])
           body == body_bytes(TheResponse.body)
       IN  /\ TheResult = as_json.result
           /\ trace = as_json.trace
           /\ self.require_signed_response
              => TheResult = ClaimsVerification(NoSignature)
           /\ (~self.require_signed_response /\ body # {})
              => TheResult = from_json(unwrap(body),
                                       self.signed_response_verifier.expected_subject)
           /\ TheResult.kind # "Response"
           /\ \A i \in 1..Len(trace) : trace[i] \notin {"parse_jwt", "verifier"}

\* A response without the header whose JWT-shaped body is refused as JSON,
\* and one whose claims are returned unsigned.
C14_Witness ==
    /\ Responded
    /\ TheResponse.status = 200
    /\ TheResponse.header = {}
    /\ ~self.require_signed_response
    /\ TheResult.kind = "Ok"
    /\ trace = <<"status", "content_type", "read_body", "from_json">>

\* The value a setting has after the calls recorded: the argument of the
\* last call of its option, or its value at construction.
LastSet(option, initially) ==
    IF call[option] = {} THEN initially ELSE unwrap(call[option])

\* C15: each option changes its own setting and nothing else: url, access
\* token and expected subject stay as constructed, and after any sequence of
\* calls require_signed_response, the issuer toggle and the audience toggle
\* each equal the argument of the last call of their own option (their
\* value at construction where it was never called).
C15_OptionsChangeOnlyTheirSetting ==
    call.fn = "builder"
    => /\ self.url = call.initial.url
       /\ self.access_token = call.initial.access_token
       /\ self.signed_response_verifier.expected_subject
            = call.initial.signed_response_verifier.expected_subject
       /\ self.require_signed_response
            = LastSet("require_signed_response", call.initial.require_signed_response)
       /\ self.signed_response_verifier.iss_required
            = LastSet("require_issuer_match",
                      call.initial.signed_response_verifier.iss_required)
       /\ self.signed_response_verifier.aud_required
            = LastSet("require_audience_match",
                      call.initial.signed_response_verifier.aud_required)

\* A request on which two options were called with arguments other than
\* the values at construction and the third was never called.
C15_Witness ==
    /\ call.fn = "builder"
    /\ ~call.initial.require_signed_response
    /\ call.initial.signed_response_verifier.iss_required
    /\ call.initial.signed_response_verifier.aud_required
    /\ call.require_signed_response = {TRUE}
    /\ call.require_issuer_match = {FALSE}
    /\ call.require_audience_match = {}
    /\ self.require_signed_response
    /\ ~self.signed_response_verifier.iss_required
    /\ self.signed_response_verifier.aud_required

====
